---- MODULE Spec2Model ----
(***************************************************************************)
(* State-machine model of the user-service authentication core:           *)
(* UserRepository (in-memory Map of users), PasswordService (bcrypt),     *)
(* JwtService (unsigned token), AuthService (signUp / signIn / logout).    *)
(*                                                                         *)
(* Every request runs as an async function on the single-threaded event    *)
(* loop: the code between two awaits is one atomic step, and the steps of  *)
(* concurrently running requests interleave at the awaits.                 *)
(***************************************************************************)
EXTENDS Integers, Sequences, FiniteSets, TLC

(***************************************************************************)
(* Bounds of the model.                                                    *)
(***************************************************************************)
MaxStarted == 2      \* requests in one behaviour; any number of them may overlap
MaxTicks == 2        \* clock advances in one behaviour
TickMs == 500        \* milliseconds per clock advance

Procs == 1..MaxStarted

(***************************************************************************)
(* Strings the code transforms are sequences of one-character strings;     *)
(* strings it only compares or stores are TLA+ strings.                    *)
(***************************************************************************)
Undefined == "undefined"

LowerChar(c) ==
    CASE c = "A" -> "a"
      [] c = "B" -> "b"
      [] OTHER -> c

\* String.prototype.toLowerCase
toLowerCase(s) == [i \in DOMAIN s |-> LowerChar(s[i])]

AdminEmail == <<"a","d","m","i","n","@","e","x","a","m","p","l","e",".","c","o","m">>
UserEmail == <<"u","s","e","r","@","e","x","a","m","p","l","e",".","c","o","m">>
ManagerEmail == <<"m","a","n","a","g","e","r","@","e","x","a","m","p","l","e",".","c","o","m">>
TestEmail == <<"t","e","s","t","@","e","x","a","m","p","l","e",".","c","o","m">>

(***************************************************************************)
(* PasswordService: bcrypt with a random salt.  The digest is a function   *)
(* of cost, salt and password; compare re-computes it with the salt that   *)
(* is stored in the hash.                                                  *)
(***************************************************************************)
saltRounds == 10

\* bcrypt uses the first 72 bytes of the password and ignores the rest
MaxKeyBytes == 72

bcryptKey(password) ==
    SubSeq(password, 1, IF Len(password) < MaxKeyBytes THEN Len(password) ELSE MaxKeyBytes)

\* a digest that depends on the whole password
bcryptHash_WholePassword(password, rounds, salt) ==
    [version |-> "2b", cost |-> rounds, salt |-> salt,
     digest |-> <<rounds, salt, password>>]

bcryptHash(password, rounds, salt) ==
    [version |-> "2b", cost |-> rounds, salt |-> salt,
     digest |-> <<rounds, salt, bcryptKey(password)>>]

hashPassword(password, salt) == bcryptHash(password, saltRounds, salt)

verifyPassword(password, hash) ==
    bcryptHash(password, hash.cost, hash.salt) = hash

NoHash == [version |-> "none"]

Password123 == <<"p", "a", "s", "s", "w", "o", "r", "d", "1", "2", "3">>
PasswordUpper == <<"P", "a", "s", "s", "w", "o", "r", "d", "1", "2", "3">>

\* the pre-hashed 'password123' of the seeded users:
\* $2b$10$6dg8POodXtd8msXSKr0KIuN0sQskcRu4/04IWdH2nTWQdG5pbSH26
defaultPasswordHash == bcryptHash(Password123, 10, "6dg8POodXtd8msXSKr0KIu")

(***************************************************************************)
(* State.                                                                  *)
(***************************************************************************)
VARIABLES
    users,           \* UserRepository.users: the Map's values in insertion order
    tokenBlacklist,  \* AuthService.tokenBlacklist
    clock,           \* Date.now(), milliseconds
    nodeEnv,         \* process.env.NODE_ENV
    uuidCount,       \* number of uuidv4() results handed out
    saltCount,       \* number of bcrypt salts generated
    calls,           \* the requests, in the order they arrived
    started,         \* requests that have arrived so far
    loggedOut        \* history: every token passed to AuthService.logout

vars == <<users, tokenBlacklist, clock, nodeEnv, uuidCount, saltCount, calls, started,
          loggedOut>>

mockUsers ==
    << [id |-> "550e8400-e29b-41d4-a716-446655440001", email |-> AdminEmail,
        passwordHash |-> defaultPasswordHash, roles |-> <<"admin", "user">>],
       [id |-> "550e8400-e29b-41d4-a716-446655440002", email |-> UserEmail,
        passwordHash |-> defaultPasswordHash, roles |-> <<"user">>],
       [id |-> "550e8400-e29b-41d4-a716-446655440003", email |-> ManagerEmail,
        passwordHash |-> defaultPasswordHash, roles |-> <<"manager", "user">>],
       [id |-> "550e8400-e29b-41d4-a716-446655440004", email |-> TestEmail,
        passwordHash |-> defaultPasswordHash, roles |-> <<"user">>] >>

(***************************************************************************)
(* UserRepository.                                                         *)
(***************************************************************************)
\* a set that writes over the newest entry
MapSet_Overwrite(map, user) ==
    IF map = <<>> THEN <<user>> ELSE [map EXCEPT ![Len(map)] = user]

\* a set that adds an entry whether or not the key is there
MapSet_AlwaysAppend(map, user) == Append(map, user)

\* Map.prototype.set: replace the value of an existing key in place, else append
MapSet(map, user) ==
    IF \E i \in DOMAIN map : map[i].id = user.id
    THEN [i \in DOMAIN map |-> IF map[i].id = user.id THEN user ELSE map[i]]
    ELSE Append(map, user)

MapHas(map, id) == \E i \in DOMAIN map : map[i].id = id

MapGet(map, id) == map[CHOOSE i \in DOMAIN map : map[i].id = id]

RECURSIVE SeedFrom(_, _, _)
SeedFrom(map, i, now) ==
    IF i > Len(mockUsers) THEN map
    ELSE SeedFrom(MapSet(map, [id |-> mockUsers[i].id,
                               email |-> mockUsers[i].email,
                               passwordHash |-> mockUsers[i].passwordHash,
                               roles |-> mockUsers[i].roles,
                               createdAt |-> now, updatedAt |-> now]),
                  i + 1, now)

seedMockUsers(map, now) == SeedFrom(map, 1, now)

findByEmail_CaseSensitive(email) ==
    LET matches == {i \in DOMAIN users : users[i].email = email}
    IN IF matches = {} THEN Undefined
       ELSE users[CHOOSE i \in matches : \A j \in matches : i <= j].id

\* Array.prototype.find over the Map's values: the first match in insertion order
findByEmail(email) ==
    LET normalizedEmail == toLowerCase(email)
        matches == {i \in DOMAIN users : toLowerCase(users[i].email) = normalizedEmail}
    IN IF matches = {} THEN Undefined
       ELSE users[CHOOSE i \in matches : \A j \in matches : i <= j].id

findById(id) == IF MapHas(users, id) THEN id ELSE Undefined

\* bcrypt's random salt: a value no earlier call drew
genSalt == "salt-" \o ToString(saltCount + 1)

\* uuidv4(): a value no earlier call returned
\* an id generator that repeats itself
uuidv4_Fixed == "uuid-1"

uuidv4 == "uuid-" \o ToString(uuidCount + 1)

\* create that stores the roles it is given
createUser_NoDefault(email, passwordHash, roles) ==
    [id |-> uuidv4,
     email |-> toLowerCase(email),
     passwordHash |-> passwordHash,
     roles |-> roles,
     createdAt |-> clock,
     updatedAt |-> clock]

createUser(email, passwordHash, roles) ==
    [id |-> uuidv4,
     email |-> toLowerCase(email),
     passwordHash |-> passwordHash,
     roles |-> IF Len(roles) > 0 THEN roles ELSE <<"user">>,
     createdAt |-> clock,
     updatedAt |-> clock]

\* a touch that makes an entry for an id it does not find
touch_Upsert(map, userId) ==
    IF MapHas(map, userId)
    THEN [i \in DOMAIN map |->
            IF map[i].id = userId THEN [map[i] EXCEPT !.updatedAt = clock] ELSE map[i]]
    ELSE Append(map, [id |-> userId, email |-> <<>>, passwordHash |-> NoHash,
                      roles |-> <<>>, createdAt |-> clock, updatedAt |-> clock])

\* a touch that refreshes every account
touch_All(map, userId) == [i \in DOMAIN map |-> [map[i] EXCEPT !.updatedAt = clock]]

touch_Noop(map, userId) == map

\* a touch that resets updatedAt to the epoch
touch_Epoch(map, userId) ==
    [i \in DOMAIN map |->
        IF map[i].id = userId THEN [map[i] EXCEPT !.updatedAt = 0] ELSE map[i]]

touch(map, userId) ==
    IF MapHas(map, userId)
    THEN [i \in DOMAIN map |->
            IF map[i].id = userId THEN [map[i] EXCEPT !.updatedAt = clock] ELSE map[i]]
    ELSE map

\* a list that was computed at start-up
findAll_Stale(map) == SubSeq(map, 1, Len(mockUsers))

\* Array.from(this.users.values()): the values in insertion order
findAll(map) == [i \in 1..Len(map) |-> map[i]]

(***************************************************************************)
(* JwtService.  The token text is base64url(header).base64url(payload).    *)
(* with an empty third segment; a token is kept as its three segments      *)
(* before encoding.                                                        *)
(***************************************************************************)
DevTtl == 30 * 24 * 60 * 60
ProdTtl == 24 * 60 * 60

\* the clock at start-up: late enough for a token of an earlier run to have expired
StartMs == (ProdTtl + 1) * 1000

\* an unset NODE_ENV taken for production
expiresIn_UnsetIsProduction == IF nodeEnv = "development" THEN DevTtl ELSE ProdTtl

\* the environment ignored
expiresIn_Always30Days == DevTtl

expiresIn == IF nodeEnv # "production" THEN DevTtl ELSE ProdTtl

\* a token that carries the first role only
generateToken_FirstRole(userId, email, roles) ==
    LET now == clock \div 1000
    IN [header |-> [alg |-> "none", typ |-> "JWT"],
        payload |-> [sub |-> userId, email |-> email, roles |-> SubSeq(roles, 1, 1),
                     iat |-> now, exp |-> now + expiresIn],
        signature |-> ""]

generateToken(userId, email, roles) ==
    LET now == clock \div 1000
    IN [header |-> [alg |-> "none", typ |-> "JWT"],
        payload |-> [sub |-> userId, email |-> email, roles |-> roles,
                     iat |-> now, exp |-> now + expiresIn],
        signature |-> ""]

(***************************************************************************)
(* The text of a token.  Characters are one-character strings; the         *)
(* alphabet is printable ASCII, where a UTF-8 byte is the character code.  *)
(***************************************************************************)
\* the characters with codes 32..126, in order ("grave" stands for the
\* grave accent, code 96)
Ascii ==
    <<" ", "!", "\"", "#", "$", "%", "&", "'", "(", ")", "*", "+", ",", "-", ".", "/",
      "0", "1", "2", "3", "4", "5", "6", "7", "8", "9", ":", ";", "<", "=", ">", "?",
      "@", "A", "B", "C", "D", "E", "F", "G", "H", "I", "J", "K", "L", "M", "N", "O",
      "P", "Q", "R", "S", "T", "U", "V", "W", "X", "Y", "Z", "[", "\\", "]", "^", "_",
      "grave", "a", "b", "c", "d", "e", "f", "g", "h", "i", "j", "k", "l", "m", "n", "o",
      "p", "q", "r", "s", "t", "u", "v", "w", "x", "y", "z", "{", "|", "}", "~">>

\* String.prototype.charCodeAt / Buffer.from(input, 'utf-8')
charCodes ==
    [c \in {Ascii[i] : i \in DOMAIN Ascii} |-> 31 + (CHOOSE i \in DOMAIN Ascii : Ascii[i] = c)]

charCode(c) == charCodes[c]

utf8Bytes(input) == [i \in DOMAIN input |-> charCode(input[i])]

\* the base64 alphabet, values 0..63 in order
Base64Chars ==
    <<"A", "B", "C", "D", "E", "F", "G", "H", "I", "J", "K", "L", "M", "N", "O", "P",
      "Q", "R", "S", "T", "U", "V", "W", "X", "Y", "Z", "a", "b", "c", "d", "e", "f",
      "g", "h", "i", "j", "k", "l", "m", "n", "o", "p", "q", "r", "s", "t", "u", "v",
      "w", "x", "y", "z", "0", "1", "2", "3", "4", "5", "6", "7", "8", "9", "+", "/">>

\* Buffer.prototype.toString('base64'): three bytes make four characters, the
\* last group is padded with '='
toBase64(bytes) ==
    LET n == Len(bytes)
        byte(j) == IF j <= n THEN bytes[j] ELSE 0
        char(i) ==
            LET g == (i - 1) \div 4
                k == (i - 1) % 4
                b1 == byte(3 * g + 1)
                b2 == byte(3 * g + 2)
                b3 == byte(3 * g + 3)
            IN CASE k = 0 -> Base64Chars[(b1 \div 4) + 1]
                 [] k = 1 -> Base64Chars[((b1 % 4) * 16) + (b2 \div 16) + 1]
                 [] k = 2 -> IF 3 * g + 2 > n THEN "="
                             ELSE Base64Chars[((b2 % 16) * 4) + (b3 \div 64) + 1]
                 [] k = 3 -> IF 3 * g + 3 > n THEN "="
                             ELSE Base64Chars[(b3 % 64) + 1]
    IN [i \in 1..(4 * ((n + 2) \div 3)) |-> char(i)]

\* String.prototype.replace(/from/g, to) for a one-character pattern
replaceAll(str, from, to) == [i \in DOMAIN str |-> IF str[i] = from THEN to ELSE str[i]]

\* String.prototype.replace(/c/g, '')
removeAll(str, c) == SelectSeq(str, LAMBDA x : x # c)

\* standard base64, nothing replaced
base64UrlEncode_Plain(input) == toBase64(utf8Bytes(input))

base64UrlEncode(input) ==
    LET base64 == toBase64(utf8Bytes(input))
    IN removeAll(replaceAll(replaceAll(base64, "+", "-"), "/", "_"), "=")

RECURSIVE Flatten(_)
Flatten(parts) == IF parts = <<>> THEN <<>> ELSE Head(parts) \o Flatten(Tail(parts))

\* a string put between quotes as it is
jsonString_NoEscape(str) == <<"\"">> \o str \o <<"\"">>

\* JSON.stringify of a string: quoted, with '"' and '\' escaped
jsonString(str) ==
    <<"\"">>
    \o Flatten([i \in DOMAIN str |->
                   IF str[i] \in {"\"", "\\"} THEN <<"\\", str[i]>> ELSE <<str[i]>>])
    \o <<"\"">>

\* JSON.stringify of a non-negative integer: its decimal digits
RECURSIVE jsonNumber(_)
jsonNumber(n) ==
    IF n < 10 THEN <<Ascii[17 + n]>>
    ELSE jsonNumber(n \div 10) \o <<Ascii[17 + (n % 10)]>>

\* JSON.stringify of an array of strings
jsonArray(arr) ==
    <<"[">>
    \o Flatten([i \in DOMAIN arr |->
                   (IF i > 1 THEN <<",">> ELSE <<>>) \o jsonString(arr[i])])
    \o <<"]">>

\* the characters of the literals in the code
Chars(literal) ==
    CASE literal = "none" -> <<"n", "o", "n", "e">>
      [] literal = "JWT" -> <<"J", "W", "T">>
      [] literal = "alg" -> <<"a", "l", "g">>
      [] literal = "typ" -> <<"t", "y", "p">>
      [] literal = "sub" -> <<"s", "u", "b">>
      [] literal = "email" -> <<"e", "m", "a", "i", "l">>
      [] literal = "roles" -> <<"r", "o", "l", "e", "s">>
      [] literal = "iat" -> <<"i", "a", "t">>
      [] literal = "exp" -> <<"e", "x", "p">>

\* JSON.stringify(header)
stringifyHeader(header) ==
    <<"{">> \o jsonString(Chars("alg")) \o <<":">> \o jsonString(Chars(header.alg))
    \o <<",">> \o jsonString(Chars("typ")) \o <<":">> \o jsonString(Chars(header.typ))
    \o <<"}">>

\* a payload whose sub is undefined: JSON.stringify leaves the property out
stringifyPayload_NoSub(payload) ==
    <<"{">> \o jsonString(Chars("email")) \o <<":">> \o jsonString(payload.email)
    \o <<",">> \o jsonString(Chars("roles")) \o <<":">> \o jsonArray(payload.roles)
    \o <<",">> \o jsonString(Chars("iat")) \o <<":">> \o jsonNumber(payload.iat)
    \o <<",">> \o jsonString(Chars("exp")) \o <<":">> \o jsonNumber(payload.exp)
    \o <<"}">>

\* JSON.stringify(payload): the properties in the order the object literal has
stringifyPayload(payload) ==
    <<"{">> \o jsonString(Chars("sub")) \o <<":">> \o jsonString(payload.sub)
    \o <<",">> \o jsonString(Chars("email")) \o <<":">> \o jsonString(payload.email)
    \o <<",">> \o jsonString(Chars("roles")) \o <<":">> \o jsonArray(payload.roles)
    \o <<",">> \o jsonString(Chars("iat")) \o <<":">> \o jsonNumber(payload.iat)
    \o <<",">> \o jsonString(Chars("exp")) \o <<":">> \o jsonNumber(payload.exp)
    \o <<"}">>

\* `${encodedHeader}.${encodedPayload}.`
tokenText(token) ==
    base64UrlEncode(stringifyHeader(token.header)) \o <<".">>
    \o base64UrlEncode(stringifyPayload(token.payload)) \o <<".">>

(***************************************************************************)
(* Reading a token back, as the tests of JwtService do: split at the dots, *)
(* base64-decode a segment, JSON.parse the text.                           *)
(***************************************************************************)
\* String.prototype.split(sep) for a one-character separator: the pieces
\* between the positions of sep
split(str, sep) ==
    LET at == {i \in DOMAIN str : str[i] = sep}
        pos(k) == CHOOSE i \in at : Cardinality({j \in at : j < i}) = k - 1
        n == Cardinality(at)
    IN [k \in 1..(n + 1) |->
          SubSeq(str, IF k = 1 THEN 1 ELSE pos(k - 1) + 1,
                      IF k = n + 1 THEN Len(str) ELSE pos(k) - 1)]

\* the value of each character of the base64 alphabet
base64Values ==
    [c \in {Base64Chars[k] : k \in DOMAIN Base64Chars} |->
        (CHOOSE k \in DOMAIN Base64Chars : Base64Chars[k] = c) - 1]

\* Buffer.from(str, 'base64'): four characters make three bytes; the bits
\* left over at the end are dropped
fromBase64(str) ==
    LET v(i) == base64Values[str[i]]
        byte(j) ==
            LET bit == 8 * (j - 1)
                q == (bit \div 6) + 1
                r == bit % 6
            IN CASE r = 0 -> (v(q) * 4) + (v(q + 1) \div 16)
                 [] r = 2 -> ((v(q) % 16) * 16) + (v(q + 1) \div 4)
                 [] r = 4 -> ((v(q) % 4) * 64) + v(q + 1)
    IN [j \in 1..((Len(str) * 6) \div 8) |-> byte(j)]

\* Buffer.prototype.toString('utf-8')
fromUtf8Bytes(bytes) == [j \in DOMAIN bytes |-> Ascii[bytes[j] - 31]]

\* Buffer.from(part.replace(/-/g, '+').replace(/_/g, '/'), 'base64').toString('utf-8')
base64UrlDecode(part) ==
    fromUtf8Bytes(fromBase64(replaceAll(replaceAll(part, "-", "+"), "_", "/")))

SyntaxError == [ok |-> FALSE]

Digits == {"0", "1", "2", "3", "4", "5", "6", "7", "8", "9"}

\* JSON.parse of a string; text[i] follows the opening quote
RECURSIVE scanString(_, _, _)
scanString(text, i, acc) ==
    IF i > Len(text) THEN SyntaxError
    ELSE IF text[i] = "\"" THEN [ok |-> TRUE, value |-> acc, next |-> i + 1]
    ELSE IF text[i] = "\\"
         THEN IF i + 1 > Len(text) THEN SyntaxError
              ELSE scanString(text, i + 2, Append(acc, text[i + 1]))
    ELSE scanString(text, i + 1, Append(acc, text[i]))

\* JSON.parse of a non-negative integer that starts at text[i]
RECURSIVE scanNumber(_, _, _)
scanNumber(text, i, acc) ==
    IF i <= Len(text) /\ text[i] \in Digits
    THEN scanNumber(text, i + 1, (acc * 10) + (charCode(text[i]) - 48))
    ELSE [ok |-> TRUE, value |-> acc, next |-> i]

\* JSON.parse of the elements of a non-empty array of strings
RECURSIVE scanArray(_, _, _)
scanArray(text, i, acc) ==
    IF i > Len(text) \/ text[i] # "\"" THEN SyntaxError
    ELSE LET e == scanString(text, i + 1, <<>>)
         IN IF ~e.ok \/ e.next > Len(text) THEN SyntaxError
            ELSE IF text[e.next] = "," THEN scanArray(text, e.next + 1, Append(acc, e.value))
            ELSE IF text[e.next] = "]"
                 THEN [ok |-> TRUE, value |-> Append(acc, e.value), next |-> e.next + 1]
            ELSE SyntaxError

\* JSON.parse of the value that starts at text[i]
parseValue(text, i) ==
    IF i > Len(text) THEN SyntaxError
    ELSE IF text[i] = "\"" THEN scanString(text, i + 1, <<>>)
    ELSE IF text[i] = "["
         THEN IF i + 1 <= Len(text) /\ text[i + 1] = "]"
              THEN [ok |-> TRUE, value |-> <<>>, next |-> i + 2]
              ELSE scanArray(text, i + 1, <<>>)
    ELSE IF text[i] \in Digits THEN scanNumber(text, i, 0)
    ELSE SyntaxError

\* JSON.parse of the properties of an object; a later property of the same
\* name replaces an earlier one
RECURSIVE scanObject(_, _, _)
scanObject(text, i, acc) ==
    IF i > Len(text) \/ text[i] # "\"" THEN SyntaxError
    ELSE LET k == scanString(text, i + 1, <<>>)
         IN IF ~k.ok \/ k.next > Len(text) \/ text[k.next] # ":" THEN SyntaxError
            ELSE LET v == parseValue(text, k.next + 1)
                 IN IF ~v.ok \/ v.next > Len(text) THEN SyntaxError
                    ELSE LET object == (k.value :> v.value) @@ acc
                         IN IF text[v.next] = "," THEN scanObject(text, v.next + 1, object)
                            ELSE IF text[v.next] = "}" /\ v.next = Len(text)
                                 THEN [ok |-> TRUE, value |-> object]
                            ELSE SyntaxError

\* JSON.parse of an object of strings, arrays of strings and integers
JSONparse(text) ==
    IF Len(text) < 2 \/ text[1] # "{" THEN SyntaxError
    ELSE IF text = <<"{", "}">> THEN [ok |-> TRUE, value |-> <<>>]
    ELSE scanObject(text, 2, <<>>)

(***************************************************************************)
(* Requests.  calls[p] is the p-th request to arrive: its operation, where *)
(* it is suspended, its argument, its local variables and its outcome.     *)
(* History kept with it: prior, the requests that had completed when it    *)
(* arrived; trace, the collaborator calls it has made.                     *)
(***************************************************************************)
NoDto == [none |-> TRUE]
NoResult == [kind |-> "none"]

IdleCall ==
    [op |-> "none", pc |-> "idle", dto |-> NoDto, user |-> Undefined,
     passwordHash |-> NoHash, result |-> NoResult,
     prior |-> {}, trace |-> <<>>]

Done(p) == calls[p].pc = "done"

NewCall(op, dto) ==
    [IdleCall EXCEPT !.op = op, !.dto = dto, !.prior = {q \in Procs : Done(q)}]

ConflictException(message) ==
    [kind |-> "error", exception |-> "ConflictException", message |-> message]

UnauthorizedException(message) ==
    [kind |-> "error", exception |-> "UnauthorizedException", message |-> message]

\* a duplicate reported as a bad request
EmailAlreadyRegistered_BadRequest ==
    [kind |-> "error", exception |-> "BadRequestException",
     message |-> "Email already registered"]

EmailAlreadyRegistered == ConflictException("Email already registered")

UserNotFound_Leaky ==
    [kind |-> "error", exception |-> "NotFoundException", message |-> "User not found"]

UserNotFound == UnauthorizedException("Invalid credentials")

InvalidPassword == UnauthorizedException("Invalid credentials")

LoggedOut == [kind |-> "ok", message |-> "Logged out successfully"]

\* a response that hands out the stored user object
AuthResponse_WholeUser(accessToken, user) ==
    [kind |-> "ok", accessToken |-> accessToken, user |-> user]

\* the AuthResponse built from a user and its token
AuthResponse(accessToken, user) ==
    [kind |-> "ok", accessToken |-> accessToken,
     user |-> [id |-> user.id, email |-> user.email, roles |-> user.roles]]

\* a default that overrides the roles of the request
rolesOrDefault_Always(dto) == <<"user">>

\* signUpDto.roles || ['user']
rolesOrDefault(dto) == IF "roles" \in DOMAIN dto THEN dto.roles ELSE <<"user">>

\* the next request to arrive is request p
Arrives(p) == started < MaxStarted /\ p = started + 1

(***************************************************************************)
(* AuthService.signUp                                                      *)
(***************************************************************************)
\* the call and findByEmail, up to the first await
SignUpLookup(p, dto) ==
    /\ Arrives(p)
    /\ started' = started + 1
    /\ calls' = [calls EXCEPT ![p] =
                    [NewCall("signUp", dto) EXCEPT !.pc = "afterFind",
                                                   !.user = findByEmail(dto.email),
                                                   !.trace = <<"findByEmail">>]]
    /\ UNCHANGED <<users, tokenBlacklist, clock, nodeEnv, uuidCount, saltCount,
                   loggedOut>>

\* a check that waits until no other call is between its steps
SignUpCheck_WaitsForOthers(p) ==
    /\ calls[p].op = "signUp"
    /\ calls[p].pc = "afterFind"
    /\ \A q \in Procs \ {p} : calls[q].pc \in {"idle", "done"}
    /\ IF calls[p].user # Undefined
       THEN /\ calls' = [calls EXCEPT ![p].pc = "done",
                                      ![p].result = EmailAlreadyRegistered]
            /\ saltCount' = saltCount
       ELSE /\ calls' = [calls EXCEPT
                           ![p].pc = "afterHash",
                           ![p].passwordHash = hashPassword(calls[p].dto.password, genSalt),
                           ![p].trace = Append(@, "hashPassword")]
            /\ saltCount' = saltCount + 1
    /\ UNCHANGED <<users, tokenBlacklist, clock, nodeEnv, uuidCount, started,
                   loggedOut>>

\* the existence check, then hashPassword (bcrypt draws the salt)
SignUpCheck(p) ==
    /\ calls[p].op = "signUp"
    /\ calls[p].pc = "afterFind"
    /\ IF calls[p].user # Undefined
       THEN /\ calls' = [calls EXCEPT ![p].pc = "done",
                                      ![p].result = EmailAlreadyRegistered]
            /\ saltCount' = saltCount
       ELSE /\ calls' = [calls EXCEPT
                           ![p].pc = "afterHash",
                           ![p].passwordHash = hashPassword(calls[p].dto.password, genSalt),
                           ![p].trace = Append(@, "hashPassword")]
            /\ saltCount' = saltCount + 1
    /\ UNCHANGED <<users, tokenBlacklist, clock, nodeEnv, uuidCount, started,
                   loggedOut>>

\* userRepository.create
SignUpCreate(p) ==
    /\ calls[p].op = "signUp"
    /\ calls[p].pc = "afterHash"
    /\ LET user == createUser(calls[p].dto.email, calls[p].passwordHash,
                              rolesOrDefault(calls[p].dto))
       IN /\ users' = MapSet(users, user)
          /\ calls' = [calls EXCEPT ![p].pc = "afterCreate",
                                    ![p].user = user.id,
                                    ![p].trace = Append(@, "create")]
    /\ uuidCount' = uuidCount + 1
    /\ UNCHANGED <<tokenBlacklist, clock, nodeEnv, saltCount, started, loggedOut>>

\* generateToken and the response
SignUpIssue(p) ==
    /\ calls[p].op = "signUp"
    /\ calls[p].pc = "afterCreate"
    /\ LET user == MapGet(users, calls[p].user)
           accessToken == generateToken(user.id, user.email, user.roles)
       IN calls' = [calls EXCEPT ![p].pc = "done",
                                 ![p].result = AuthResponse(accessToken, user),
                                 ![p].trace = Append(@, "generateToken")]
    /\ UNCHANGED <<users, tokenBlacklist, clock, nodeEnv, uuidCount, saltCount,
                   started, loggedOut>>

(***************************************************************************)
(* AuthService.signIn                                                      *)
(***************************************************************************)
\* the call and findByEmail, up to the first await
SignInLookup(p, dto) ==
    /\ Arrives(p)
    /\ started' = started + 1
    /\ calls' = [calls EXCEPT ![p] =
                    [NewCall("signIn", dto) EXCEPT !.pc = "afterFind",
                                                   !.user = findByEmail(dto.email),
                                                   !.trace = <<"findByEmail">>]]
    /\ UNCHANGED <<users, tokenBlacklist, clock, nodeEnv, uuidCount, saltCount,
                   loggedOut>>

\* the not-found check, then verifyPassword is called with the stored hash
SignInCheck(p) ==
    /\ calls[p].op = "signIn"
    /\ calls[p].pc = "afterFind"
    /\ IF calls[p].user = Undefined
       THEN calls' = [calls EXCEPT ![p].pc = "done", ![p].result = UserNotFound]
       ELSE calls' = [calls EXCEPT
                        ![p].pc = "afterVerify",
                        ![p].passwordHash = MapGet(users, calls[p].user).passwordHash,
                        ![p].trace = Append(@, "verifyPassword")]
    /\ UNCHANGED <<users, tokenBlacklist, clock, nodeEnv, uuidCount, saltCount, started,
                   loggedOut>>

SignInVerified_TouchFirst(p) ==
    /\ calls[p].op = "signIn"
    /\ calls[p].pc = "afterVerify"
    /\ users' = touch(users, calls[p].user)
    /\ IF ~verifyPassword(calls[p].dto.password, calls[p].passwordHash)
       THEN calls' = [calls EXCEPT ![p].pc = "done", ![p].result = InvalidPassword]
       ELSE calls' = [calls EXCEPT ![p].pc = "afterTouch",
                                   ![p].trace = Append(@, "touch")]
    /\ UNCHANGED <<tokenBlacklist, clock, nodeEnv, uuidCount, saltCount, started,
                   loggedOut>>

\* the password check, then userRepository.touch
SignInVerified(p) ==
    /\ calls[p].op = "signIn"
    /\ calls[p].pc = "afterVerify"
    /\ IF ~verifyPassword(calls[p].dto.password, calls[p].passwordHash)
       THEN /\ calls' = [calls EXCEPT ![p].pc = "done", ![p].result = InvalidPassword]
            /\ users' = users
       ELSE /\ calls' = [calls EXCEPT ![p].pc = "afterTouch",
                                      ![p].trace = Append(@, "touch")]
            /\ users' = touch(users, calls[p].user)
    /\ UNCHANGED <<tokenBlacklist, clock, nodeEnv, uuidCount, saltCount, started,
                   loggedOut>>

\* generateToken and the response
SignInIssue(p) ==
    /\ calls[p].op = "signIn"
    /\ calls[p].pc = "afterTouch"
    /\ LET user == MapGet(users, calls[p].user)
           accessToken == generateToken(user.id, user.email, user.roles)
       IN calls' = [calls EXCEPT ![p].pc = "done",
                                 ![p].result = AuthResponse(accessToken, user),
                                 ![p].trace = Append(@, "generateToken")]
    /\ UNCHANGED <<users, tokenBlacklist, clock, nodeEnv, uuidCount, saltCount,
                   started, loggedOut>>

(***************************************************************************)
(* AuthService.logout / isTokenBlacklisted                                 *)
(***************************************************************************)
SetAdd_Toggle(set, token) == IF token \in set THEN set \ {token} ELSE set \cup {token}

SetAdd_Replace(set, token) == {token}

SetAdd_OnlyJwt(set, token) == IF "payload" \in DOMAIN token THEN set \cup {token} ELSE set

\* an add that writes back a stale copy of the set
SetAdd_Lossy(set, token) == IF set = {} THEN {token} ELSE set

\* Set.prototype.add
SetAdd(set, token) == set \cup {token}

isTokenBlacklisted(token) == token \in tokenBlacklist

\* a logout that touches every account as well
Logout_TouchesAll(p, token) ==
    /\ Arrives(p)
    /\ started' = started + 1
    /\ tokenBlacklist' = SetAdd(tokenBlacklist, token)
    /\ loggedOut' = loggedOut \cup {token}
    /\ users' = [i \in DOMAIN users |-> [users[i] EXCEPT !.updatedAt = clock]]
    /\ calls' = [calls EXCEPT ![p] =
                    [NewCall("logout", [token |-> token]) EXCEPT !.pc = "done",
                                                                !.result = LoggedOut]]
    /\ UNCHANGED <<clock, nodeEnv, uuidCount, saltCount>>

\* logout has no await: the whole body is one step
Logout(p, token) ==
    /\ Arrives(p)
    /\ started' = started + 1
    /\ tokenBlacklist' = SetAdd(tokenBlacklist, token)
    /\ loggedOut' = loggedOut \cup {token}
    /\ calls' = [calls EXCEPT ![p] =
                    [NewCall("logout", [token |-> token]) EXCEPT !.pc = "done",
                                                                !.result = LoggedOut]]
    /\ UNCHANGED <<users, clock, nodeEnv, uuidCount, saltCount>>

\* a caller of the service asks isTokenBlacklisted(token): one step
IsTokenBlacklisted(p, token) ==
    /\ Arrives(p)
    /\ started' = started + 1
    /\ calls' = [calls EXCEPT ![p] =
                    [NewCall("isTokenBlacklisted", [token |-> token])
                        EXCEPT !.pc = "done",
                               !.result = [kind |-> "ok",
                                           value |-> isTokenBlacklisted(token)]]]
    /\ UNCHANGED <<users, tokenBlacklist, clock, nodeEnv, uuidCount, saltCount,
                   loggedOut>>

(***************************************************************************)
(* UserRepository called directly.                                         *)
(***************************************************************************)
\* a call of touch(userId): the body has no await, one step
Touch(p, userId) ==
    /\ Arrives(p)
    /\ started' = started + 1
    /\ users' = touch(users, userId)
    /\ calls' = [calls EXCEPT ![p] =
                    [NewCall("touch", [userId |-> userId])
                        EXCEPT !.pc = "done", !.result = [kind |-> "ok"]]]
    /\ UNCHANGED <<tokenBlacklist, clock, nodeEnv, uuidCount, saltCount, loggedOut>>

\* a call of findAll(): one step
FindAll(p) ==
    /\ Arrives(p)
    /\ started' = started + 1
    /\ calls' = [calls EXCEPT ![p] =
                    [NewCall("findAll", NoDto)
                        EXCEPT !.pc = "done",
                               !.result = [kind |-> "ok", body |-> findAll(users)]]]
    /\ UNCHANGED <<users, tokenBlacklist, clock, nodeEnv, uuidCount, saltCount,
                   loggedOut>>

\* onModuleInit(): seedMockUsers has no await, so the seeding is one step
OnModuleInit ==
    /\ users' = seedMockUsers(users, clock)
    /\ UNCHANGED <<tokenBlacklist, clock, nodeEnv, uuidCount, saltCount, calls, started,
                   loggedOut>>

(***************************************************************************)
(* AuthController: POST /auth/logout.  The Authorization header is text;   *)
(* an access token travels in it as the text of the token.                 *)
(***************************************************************************)
\* a check that lets every header through
startsWith_Always(str, searchString) == TRUE

\* String.prototype.startsWith
startsWith(str, searchString) ==
    /\ Len(str) >= Len(searchString)
    /\ SubSeq(str, 1, Len(searchString)) = searchString

\* a substring that keeps the whole string
substring_KeepAll(str, indexStart) == str

\* String.prototype.substring(indexStart): indexStart counts from 0
substring(str, indexStart) == SubSeq(str, indexStart + 1, Len(str))

\* String.prototype.trim: white space is the space character in this alphabet
trim(str) ==
    LET kept == {i \in DOMAIN str : str[i] # " "}
    IN IF kept = {} THEN <<>>
       ELSE SubSeq(str, CHOOSE i \in kept : \A j \in kept : i <= j,
                        CHOOSE i \in kept : \A j \in kept : i >= j)

\* 'Bearer '
BearerPrefix == <<"B", "e", "a", "r", "e", "r", " ">>

\* the characters of a user id: a seeded id, or the n-th uuid
IdChars(id) ==
    IF \E i \in DOMAIN mockUsers : mockUsers[i].id = id
    THEN <<"5","5","0","e","8","4","0","0","-","e","2","9","b","-","4","1","d","4","-",
           "a","7","1","6","-","4","4","6","6","5","5","4","4","0","0","0">>
         \o jsonNumber(CHOOSE i \in DOMAIN mockUsers : mockUsers[i].id = id)
    ELSE <<"u", "u", "i", "d", "-">>
         \o jsonNumber(CHOOSE n \in 1..(MaxStarted + 1) : id = "uuid-" \o ToString(n))

\* the characters of a role name
RoleChars(role) ==
    CASE role = "user" -> <<"u", "s", "e", "r">>
      [] role = "admin" -> <<"a", "d", "m", "i", "n">>
      [] role = "manager" -> <<"m", "a", "n", "a", "g", "e", "r">>

\* the accessToken string of a response
accessTokenString(token) ==
    tokenText([header |-> token.header,
               payload |-> [sub |-> IdChars(token.payload.sub),
                            email |-> token.payload.email,
                            roles |-> [i \in DOMAIN token.payload.roles |->
                                          RoleChars(token.payload.roles[i])],
                            iat |-> token.payload.iat,
                            exp |-> token.payload.exp],
               signature |-> token.signature])

MissingOrInvalidHeader == UnauthorizedException("Missing or invalid Authorization header")

\* AuthController.logout(authorization): the header check, substring, trim and
\* the call of AuthService.logout, whose body has no await: one step.
\* headers is the request's header object; @Headers('authorization') is
\* undefined when it has no such property.
AuthControllerLogout(p, headers) ==
    /\ Arrives(p)
    /\ started' = started + 1
    /\ IF \/ "authorization" \notin DOMAIN headers
          \/ headers.authorization = <<>>
          \/ ~startsWith(headers.authorization, BearerPrefix)
       THEN /\ calls' = [calls EXCEPT ![p] =
                           [NewCall("AuthController.logout", headers)
                               EXCEPT !.pc = "done", !.result = MissingOrInvalidHeader]]
            /\ UNCHANGED <<tokenBlacklist, loggedOut>>
       ELSE LET token == trim(substring(headers.authorization, Len(BearerPrefix)))
            IN /\ tokenBlacklist' = SetAdd(tokenBlacklist, token)
               /\ loggedOut' = loggedOut \cup {token}
               /\ calls' = [calls EXCEPT ![p] =
                              [NewCall("AuthController.logout", headers)
                                  EXCEPT !.pc = "done", !.result = LoggedOut,
                                         !.trace = <<"logout">>]]
    /\ UNCHANGED <<users, clock, nodeEnv, uuidCount, saltCount>>

(***************************************************************************)
(* UserController: GET /users/:userId                                      *)
(***************************************************************************)
NotFoundException(message) ==
    [kind |-> "error", exception |-> "NotFoundException", message |-> message]

\* the object getUserById returns for a user
UserResponse(user) ==
    [kind |-> "ok", body |-> [id |-> user.id, email |-> user.email, roles |-> user.roles]]

\* The Map of the UserRepository that serves UserService.  AppModule lists
\* UserRepository in its own providers and AuthModule lists it in its own, so
\* each module gets an instance of its own: AuthService writes the one of
\* AuthModule (users); the one of AppModule is seeded by its onModuleInit at
\* start-up and nothing writes it afterwards.
appModuleUsers == seedMockUsers(<<>>, StartMs)

\* UserService.userExists
userExists(userId) == MapHas(appModuleUsers, userId)

\* UserService.getUserById reads the user when it is called; the awaits that
\* follow read no state, so the handler's answer is fixed by this step
GetUserById(p, userId) ==
    /\ Arrives(p)
    /\ started' = started + 1
    /\ LET user == IF MapHas(appModuleUsers, userId) THEN userId ELSE Undefined
       IN calls' = [calls EXCEPT ![p] =
                      [NewCall("getUserById", [userId |-> userId])
                          EXCEPT !.pc = "done",
                                 !.user = user,
                                 !.result =
                                     IF user = Undefined
                                     THEN NotFoundException("User with ID " \o userId
                                                            \o " not found")
                                     ELSE UserResponse(MapGet(appModuleUsers, user)),
                                 !.trace = <<"findById">>]]
    /\ UNCHANGED <<users, tokenBlacklist, clock, nodeEnv, uuidCount, saltCount,
                   loggedOut>>

\* GET /users/:userId/validate: userExists reads the user when it is called
ValidateUser(p, userId) ==
    /\ Arrives(p)
    /\ started' = started + 1
    /\ calls' = [calls EXCEPT ![p] =
                    [NewCall("validateUser", [userId |-> userId])
                        EXCEPT !.pc = "done",
                               !.result = [kind |-> "ok",
                                           body |-> [exists |-> userExists(userId),
                                                     userId |-> userId]],
                               !.trace = <<"findById">>]]
    /\ UNCHANGED <<users, tokenBlacklist, clock, nodeEnv, uuidCount, saltCount,
                   loggedOut>>

(***************************************************************************)
(* Environment and inputs.                                                 *)
(***************************************************************************)
Tick ==
    /\ clock + TickMs <= StartMs + MaxTicks * TickMs
    /\ clock' = clock + TickMs
    /\ UNCHANGED <<users, tokenBlacklist, nodeEnv, uuidCount, saltCount, calls, started,
                   loggedOut>>

NewEmail == <<"a", "@", "x">>
NewEmailUpper == <<"A", "@", "x">>
AdminEmailUpper == [AdminEmail EXCEPT ![1] = "A"]

\* the spellings of email addresses that callers use
EmailCasings == {NewEmail, NewEmailUpper, AdminEmail, AdminEmailUpper}

SignUpDtos == {[email |-> e, password |-> Password123] : e \in {NewEmail, NewEmailUpper}}

SignInDtos ==
    {[email |-> e, password |-> pw] :
        e \in {NewEmailUpper, AdminEmail}, pw \in {Password123, PasswordUpper}}

\* a token string this service never produced
ForeignToken == [raw |-> "jwt-token-123"]

\* a production token of the admin user from an earlier run of the service: expired
ExpiredToken ==
    [header |-> [alg |-> "none", typ |-> "JWT"],
     payload |-> [sub |-> mockUsers[1].id, email |-> mockUsers[1].email,
                  roles |-> mockUsers[1].roles, iat |-> 0, exp |-> ProdTtl],
     signature |-> ""]

\* the requests signUp or signIn has answered with a token
Issued == {p \in Procs : Done(p) /\ calls[p].op \in {"signUp", "signIn"}
                                 /\ calls[p].result.kind = "ok"}

IssuedTokens == {calls[p].result.accessToken : p \in Issued}

\* what a client can present: a token from a response, or any other string
LogoutTokens == IssuedTokens \cup {ForeignToken, ExpiredToken}

\* the state after module initialisation (onModuleInit has seeded the users)
Init ==
    /\ clock = StartMs
    /\ users = seedMockUsers(<<>>, clock)
    /\ tokenBlacklist = {}
    /\ nodeEnv = Undefined        \* NODE_ENV is not set
    /\ uuidCount = 0
    /\ saltCount = 0
    /\ calls = [p \in Procs |-> IdleCall]
    /\ started = 0
    /\ loggedOut = {}

Next ==
    \/ \E p \in Procs : \E dto \in SignUpDtos : SignUpLookup(p, dto)
    \/ \E p \in Procs : SignUpCheck(p)
    \/ \E p \in Procs : SignUpCreate(p)
    \/ \E p \in Procs : SignUpIssue(p)
    \/ \E p \in Procs : \E dto \in SignInDtos : SignInLookup(p, dto)
    \/ \E p \in Procs : SignInCheck(p)
    \/ \E p \in Procs : SignInVerified(p)
    \/ \E p \in Procs : SignInIssue(p)
    \/ \E p \in Procs : \E token \in LogoutTokens : Logout(p, token)
    \/ Tick

Spec == Init /\ [][Next]_vars

\* the step of request p that follows a resolved await
Continue(p) ==
    \/ SignUpCheck(p)
    \/ SignUpCreate(p)
    \/ SignUpIssue(p)
    \/ SignInCheck(p)
    \/ SignInVerified(p)
    \/ SignInIssue(p)

\* sign-up, sign-in with the right and with a wrong password, and logout
NextLive ==
    \/ \E p \in Procs : SignUpLookup(p, [email |-> NewEmail, password |-> Password123])
    \/ \E p \in Procs :
          \E dto \in {[email |-> NewEmail, password |-> Password123],
                       [email |-> AdminEmail, password |-> PasswordUpper]} :
              SignInLookup(p, dto)
    \/ \E p \in Procs : \E token \in IssuedTokens \cup {ForeignToken} : Logout(p, token)
    \/ \E p \in Procs : Continue(p)
    \/ Tick

\* the scheduling of the event loop: every await of these calls resolves (a
\* repository promise, or bcrypt on the thread pool), and the continuation of
\* a resolved await is run
SpecLive == Init /\ [][NextLive]_vars /\ \A p \in Procs : WF_vars(Continue(p))

\* the requests of Spec, and callers that query the blacklist between them
NextQuery ==
    \/ Next
    \/ \E p \in Procs : \E token \in LogoutTokens : IsTokenBlacklisted(p, token)

SpecQuery == Init /\ [][NextQuery]_vars

(***************************************************************************)
(* JwtService on its own: generateToken called with arguments of any kind  *)
(* while the clock advances and NODE_ENV changes.                          *)
(***************************************************************************)
\* process.env.NODE_ENV: not set, or one of the names the code and its tests use
NodeEnvs == {Undefined, "development", "production"}

\* an email whose JSON text needs escapes and whose base64 has '+' and '/'
OddEmail == <<"~", "~", "~", "?", "?", "?", "\"", "\\", "@", "x">>

UserId1 == <<"u", "1">>
UserId2 == <<"u", "2">>
RoleUser == <<"u", "s", "e", "r">>
RoleAdmin == <<"a", "d", "m", "i", "n">>

\* the arguments of generateToken
TokenArgs ==
    {[userId |-> UserId1, email |-> NewEmail, roles |-> <<>>],
     [userId |-> UserId2, email |-> NewEmail, roles |-> <<>>],
     [userId |-> UserId1, email |-> OddEmail, roles |-> <<RoleAdmin, RoleUser>>]}

\* a call of generateToken: synchronous, one step.  The trace keeps what the
\* call read from its environment: the second of Date.now() and NODE_ENV.
GenerateToken(p, args) ==
    /\ Arrives(p)
    /\ started' = started + 1
    /\ calls' = [calls EXCEPT ![p] =
                    [NewCall("generateToken", args)
                        EXCEPT !.pc = "done",
                               !.result = [kind |-> "ok",
                                           accessToken |->
                                               tokenText(generateToken(args.userId,
                                                                       args.email,
                                                                       args.roles))],
                               !.trace = <<[read |-> "now", value |-> clock \div 1000],
                                           [read |-> "NODE_ENV", value |-> nodeEnv]>>]]
    /\ UNCHANGED <<users, tokenBlacklist, clock, nodeEnv, uuidCount, saltCount,
                   loggedOut>>

\* process.env.NODE_ENV is set or deleted
SetEnv(env) ==
    /\ env # nodeEnv
    /\ nodeEnv' = env
    /\ UNCHANGED <<users, tokenBlacklist, clock, uuidCount, saltCount, calls, started,
                   loggedOut>>

InitJwt ==
    /\ clock = StartMs
    /\ users = seedMockUsers(<<>>, clock)
    /\ tokenBlacklist = {}
    /\ nodeEnv \in NodeEnvs
    /\ uuidCount = 0
    /\ saltCount = 0
    /\ calls = [p \in Procs |-> IdleCall]
    /\ started = 0
    /\ loggedOut = {}

NextJwt ==
    \/ \E p \in Procs : \E args \in TokenArgs : GenerateToken(p, args)
    \/ \E env \in NodeEnvs : SetEnv(env)
    \/ Tick

SpecJwt == InitJwt /\ [][NextJwt]_vars

\* the ids that touch and findById are asked for: a seeded user, the first
\* user that signs up, and an id of no user
RepoIds == {mockUsers[1].id, "uuid-1", "no-such-id"}

\* the service, with callers that use the repository directly
NextRepo ==
    \/ \E p \in Procs : \E dto \in SignUpDtos : SignUpLookup(p, dto)
    \/ \E p \in Procs : SignUpCheck(p)
    \/ \E p \in Procs : SignUpCreate(p)
    \/ \E p \in Procs : SignUpIssue(p)
    \/ \E p \in Procs :
          \E dto \in {[email |-> AdminEmail, password |-> Password123],
                       [email |-> NewEmailUpper, password |-> Password123]} :
              SignInLookup(p, dto)
    \/ \E p \in Procs : SignInCheck(p)
    \/ \E p \in Procs : SignInVerified(p)
    \/ \E p \in Procs : SignInIssue(p)
    \/ \E p \in Procs : \E token \in IssuedTokens \cup {ForeignToken} : Logout(p, token)
    \/ \E p \in Procs : \E userId \in RepoIds : Touch(p, userId)
    \/ \E p \in Procs : FindAll(p)
    \/ Tick

SpecRepo == Init /\ [][NextRepo]_vars

OtherEmail == <<"b", "@", "x">>

\* sign-up requests without roles, with an empty list and with a list of roles
SignUpRolesDtos ==
    {[email |-> NewEmail, password |-> Password123],
     [email |-> NewEmail, password |-> Password123, roles |-> <<>>],
     [email |-> OtherEmail, password |-> Password123, roles |-> <<"manager", "admin">>]}

\* the ids that GET /users/:userId is asked for: a seeded user, the first user
\* that signs up, and an id of no user
UserIds == {mockUsers[1].id, "uuid-1", "no-such-id"}

\* signUp with and without roles, signIn, and GET /users/:userId
NextRoles ==
    \/ \E p \in Procs : \E userId \in UserIds : GetUserById(p, userId)
    \/ \E p \in Procs : \E dto \in SignUpRolesDtos : SignUpLookup(p, dto)
    \/ \E p \in Procs : SignUpCheck(p)
    \/ \E p \in Procs : SignUpCreate(p)
    \/ \E p \in Procs : SignUpIssue(p)
    \/ \E p \in Procs : \E dto \in SignInDtos : SignInLookup(p, dto)
    \/ \E p \in Procs : SignInCheck(p)
    \/ \E p \in Procs : SignInVerified(p)
    \/ \E p \in Procs : SignInIssue(p)
    \/ Tick

SpecRoles == Init /\ [][NextRoles]_vars

(***************************************************************************)
(* Sign-up and sign-in with secrets of every kind the DTOs let through:    *)
(* SignUpDto asks for a string of at least 8 characters and sets no        *)
(* maximum length.                                                         *)
(***************************************************************************)
\* a secret one character longer than what bcrypt reads
LongSecret == [i \in 1..(MaxKeyBytes + 1) |-> IF i <= MaxKeyBytes THEN "a" ELSE "b"]

\* another secret of that length: it differs from LongSecret in its last character
LongSecretOther == [i \in 1..(MaxKeyBytes + 1) |-> IF i <= MaxKeyBytes THEN "a" ELSE "c"]

EmptySecret == <<>>

SecretSignUpDtos == {[email |-> NewEmail, password |-> pw] : pw \in {LongSecret, Password123}}

SecretSignInDtos ==
    {[email |-> NewEmail, password |-> pw] :
        pw \in {LongSecret, LongSecretOther, Password123, EmptySecret}}
    \cup {[email |-> AdminEmail, password |-> pw] :
            pw \in {Password123, PasswordUpper, EmptySecret}}

NextSecret ==
    \/ \E p \in Procs : \E dto \in SecretSignUpDtos : SignUpLookup(p, dto)
    \/ \E p \in Procs : SignUpCheck(p)
    \/ \E p \in Procs : SignUpCreate(p)
    \/ \E p \in Procs : SignUpIssue(p)
    \/ \E p \in Procs : \E dto \in SecretSignInDtos : SignInLookup(p, dto)
    \/ \E p \in Procs : SignInCheck(p)
    \/ \E p \in Procs : SignInVerified(p)
    \/ \E p \in Procs : SignInIssue(p)
    \/ Tick

SpecSecret == Init /\ [][NextSecret]_vars

(***************************************************************************)
(* The seeded accounts: sign-in and sign-up with their emails while        *)
(* onModuleInit may run again.                                             *)
(***************************************************************************)
SeedEmails == {mockUsers[i].email : i \in DOMAIN mockUsers}

SeedSignUpDtos ==
    {[email |-> e, password |-> Password123] :
        e \in {AdminEmailUpper, UserEmail, NewEmail}}

SeedSignInDtos ==
    {[email |-> e, password |-> Password123] : e \in {AdminEmail, TestEmail}}

NextSeed ==
    \/ \E p \in Procs : \E dto \in SeedSignUpDtos : SignUpLookup(p, dto)
    \/ \E p \in Procs : SignUpCheck(p)
    \/ \E p \in Procs : SignUpCreate(p)
    \/ \E p \in Procs : SignUpIssue(p)
    \/ \E p \in Procs : \E dto \in SeedSignInDtos : SignInLookup(p, dto)
    \/ \E p \in Procs : SignInCheck(p)
    \/ \E p \in Procs : SignInVerified(p)
    \/ \E p \in Procs : SignInIssue(p)
    \/ OnModuleInit
    \/ Tick

SpecSeed == Init /\ [][NextSeed]_vars

(***************************************************************************)
(* The user endpoints beside sign-up: GET /users/:userId and               *)
(* GET /users/:userId/validate asked for seeded ids, for the ids sign-up   *)
(* hands out and for an id of no account.                                  *)
(***************************************************************************)
NextUsers ==
    \/ \E p \in Procs : \E dto \in SignUpDtos : SignUpLookup(p, dto)
    \/ \E p \in Procs : SignUpCheck(p)
    \/ \E p \in Procs : SignUpCreate(p)
    \/ \E p \in Procs : SignUpIssue(p)
    \/ \E p \in Procs : \E userId \in RepoIds : GetUserById(p, userId)
    \/ \E p \in Procs : \E userId \in RepoIds : ValidateUser(p, userId)
    \/ Tick

SpecUsers == Init /\ [][NextUsers]_vars

(***************************************************************************)
(* The logout endpoint: clients sign up or sign in and post to             *)
(* /auth/logout with headers of every kind.                                *)
(***************************************************************************)
\* 'jwt-token-123'
ForeignTokenText == <<"j", "w", "t", "-", "t", "o", "k", "e", "n", "-", "1", "2", "3">>

\* the tokens issued to the admin account and to the accounts that sign
\* up, at every second the clock can show
IssuableTokens ==
    LET accounts ==
            {[id |-> mockUsers[1].id, email |-> mockUsers[1].email,
              roles |-> mockUsers[1].roles]}
            \cup {[id |-> "uuid-" \o ToString(n), email |-> NewEmail, roles |-> <<"user">>] :
                    n \in 1..MaxStarted}
        seconds == {(StartMs + k * TickMs) \div 1000 : k \in 0..MaxTicks}
    IN {[header |-> [alg |-> "none", typ |-> "JWT"],
         payload |-> [sub |-> a.id, email |-> a.email, roles |-> a.roles,
                      iat |-> t, exp |-> t + DevTtl],
         signature |-> ""] : a \in accounts, t \in seconds}

\* their strings, computed once
accessTokenStrings == [token \in IssuableTokens |-> accessTokenString(token)]

accessTokenText(token) ==
    IF token \in IssuableTokens THEN accessTokenStrings[token] ELSE accessTokenString(token)

IssuedTokenTexts == {accessTokenText(token) : token \in IssuedTokens}

\* the header objects a client can send: without Authorization, with an
\* empty one, with a token without 'Bearer ', with 'bearer ' in lower case,
\* with 'Bearer ' before a token, with and without spaces around it, and
\* with 'Bearer ' before nothing but spaces
LogoutHeaders ==
    {[accept |-> <<"*">>], [authorization |-> <<>>],
     [authorization |-> BearerPrefix \o <<" ", " ">>],
     [authorization |-> <<"b">> \o Tail(BearerPrefix) \o ForeignTokenText],
     [authorization |-> BearerPrefix \o <<" ">> \o ForeignTokenText \o <<" ">>]}
    \cup {[authorization |-> text] : text \in IssuedTokenTexts \cup {ForeignTokenText}}
    \cup {[authorization |-> BearerPrefix \o text] :
            text \in IssuedTokenTexts \cup {ForeignTokenText}}

NextHttp ==
    \/ \E p \in Procs : SignUpLookup(p, [email |-> NewEmail, password |-> Password123])
    \/ \E p \in Procs : SignUpCheck(p)
    \/ \E p \in Procs : SignUpCreate(p)
    \/ \E p \in Procs : SignUpIssue(p)
    \/ \E p \in Procs : SignInLookup(p, [email |-> AdminEmail, password |-> Password123])
    \/ \E p \in Procs : SignInCheck(p)
    \/ \E p \in Procs : SignInVerified(p)
    \/ \E p \in Procs : SignInIssue(p)
    \/ \E p \in Procs : \E headers \in LogoutHeaders : AuthControllerLogout(p, headers)
    \/ Tick

SpecHttp == Init /\ [][NextHttp]_vars

(***************************************************************************)
(* Vocabulary of the properties.                                           *)
(***************************************************************************)
IsOp(p, op) == calls[p].op = op

Ok(p) == Done(p) /\ calls[p].result.kind = "ok"

\* request p arrives in this step
ArrivesNow(p) == calls[p].pc = "idle" /\ calls'[p].pc # "idle"

\* request p takes a step
Steps(p) == calls'[p] # calls[p]

\* some account has this email, letter case aside
emailRegistered(email) ==
    \E i \in DOMAIN users : toLowerCase(users[i].email) = toLowerCase(email)

Called(p, name) == \E i \in DOMAIN calls[p].trace : calls[p].trace[i] = name

SameIdentity(p, q) == toLowerCase(calls[p].dto.email) = toLowerCase(calls[q].dto.email)

(***************************************************************************)
(* Registration.                                                           *)
(***************************************************************************)
\* C1: of the signUp calls for one identity that was not registered before,
\* once they have all completed exactly one has succeeded and every other one
\* has failed with ConflictException('Email already registered').
C1_ExactlyOneSignUpSucceeds ==
    \A p \in Procs :
        LET same == {q \in Procs : IsOp(q, "signUp") /\ SameIdentity(p, q)}
        IN (IsOp(p, "signUp") /\ \A q \in same : Done(q))
           => /\ Cardinality({q \in same : Ok(q)}) = 1
              /\ \A q \in same : ~Ok(q) => calls[q].result = EmailAlreadyRegistered

\* C2: no two accounts of the directory have the same id, and no two have emails
\* that are equal after lower-casing.
C2_UniqueIdsAndEmails ==
    \A i, j \in DOMAIN users :
        i # j => /\ users[i].id # users[j].id
                 /\ toLowerCase(users[i].email) # toLowerCase(users[j].email)

\* C3: a signUp whose email matches, letter case aside, an account that is in the
\* directory when the call is made finds that account, fails with
\* ConflictException('Email already registered') without hashing, creating or
\* issuing anything, and none of its steps changes the directory or the blacklist.
C3_DuplicateSignUpRejected ==
    [][\A p \in Procs :
        /\ (ArrivesNow(p) /\ calls'[p].op = "signUp" /\ emailRegistered(calls'[p].dto.email))
           => /\ calls'[p].user # Undefined
              /\ users' = users
              /\ tokenBlacklist' = tokenBlacklist
        /\ (IsOp(p, "signUp") /\ calls[p].pc = "afterFind" /\ calls[p].user # Undefined
            /\ Steps(p))
           => /\ calls'[p].pc = "done"
              /\ calls'[p].result = [kind |-> "error", exception |-> "ConflictException",
                                     message |-> "Email already registered"]
              /\ calls'[p].trace = <<"findByEmail">>
              /\ users' = users
              /\ tokenBlacklist' = tokenBlacklist
              /\ uuidCount' = uuidCount
              /\ saltCount' = saltCount]_vars

\* a signUp with another letter case of a registered email has been rejected
C3_Witness ==
    \E p \in Procs :
        /\ IsOp(p, "signUp") /\ Done(p)
        /\ calls[p].result.kind = "error"
        /\ calls[p].dto.email = NewEmailUpper
        /\ \E i \in DOMAIN users : users[i].email = NewEmail

(***************************************************************************)
(* Authentication.                                                         *)
(***************************************************************************)
\* the lookup of signIn p found no account
NoAccount(p) == IsOp(p, "signIn") /\ Done(p) /\ calls[p].user = Undefined

\* signIn p found an account whose hash the password does not verify against
WrongPassword(p) ==
    /\ IsOp(p, "signIn") /\ Done(p) /\ calls[p].user # Undefined
    /\ ~verifyPassword(calls[p].dto.password, MapGet(users, calls[p].user).passwordHash)

\* C4: a signIn for an email with no account and a signIn with a wrong password
\* for an existing account get the same outcome: UnauthorizedException with the
\* message 'Invalid credentials', and no token.
C4_FailuresIndistinguishable ==
    \A p, q \in Procs :
        (NoAccount(p) /\ WrongPassword(q))
        => /\ calls[p].result = calls[q].result
           /\ calls[p].result.kind = "error"
           /\ calls[p].result.exception = "UnauthorizedException"
           /\ calls[p].result.message = "Invalid credentials"
           /\ "accessToken" \notin DOMAIN calls[p].result

\* both kinds of failure have happened
C4_Witness == \E p, q \in Procs : NoAccount(p) /\ WrongPassword(q)

\* what a failed signIn must not do
C5_NoCalls ==
    \A p \in Procs :
        /\ NoAccount(p) => calls[p].trace = <<"findByEmail">>
        /\ WrongPassword(p) => calls[p].trace = <<"findByEmail", "verifyPassword">>

\* C5: a failed signIn changes nothing: with no account it never calls
\* verifyPassword, with a wrong password it calls neither touch nor generateToken,
\* and no step of it changes an account or the blacklist.
C5_FailedSignInChangesNothing ==
    /\ []C5_NoCalls
    /\ [][\A p \in Procs :
            (calls'[p].op = "signIn" /\ Steps(p) /\ calls'[p].pc \in {"afterFind", "afterVerify", "done"}
             /\ calls'[p].result.kind # "ok")
            => /\ users' = users
               /\ tokenBlacklist' = tokenBlacklist]_vars

\* a signIn with a wrong password has failed after the clock moved on
C5_Witness ==
    \E p \in Procs :
        /\ WrongPassword(p)
        /\ clock > MapGet(users, calls[p].user).updatedAt

\* the state of a signIn that has succeeded
C6_Result ==
    \A p \in Procs :
        (IsOp(p, "signIn") /\ Ok(p))
        => LET user == MapGet(users, calls[p].user)
               claims == calls[p].result.accessToken.payload
           IN /\ calls[p].trace = <<"findByEmail", "verifyPassword", "touch", "generateToken">>
              /\ toLowerCase(user.email) = toLowerCase(calls[p].dto.email)
              /\ verifyPassword(calls[p].dto.password, user.passwordHash)
              /\ calls[p].result.user = [id |-> user.id, email |-> user.email,
                                         roles |-> user.roles]
              /\ claims.sub = user.id
              /\ claims.email = user.email
              /\ claims.roles = user.roles

\* C6: a successful signIn looks up, verifies, touches and issues, in this order:
\* the touch sets the account's updatedAt to the time of the touch, never earlier
\* than it was, the token is generated afterwards, and the response holds the
\* token and the view {id, email, roles} of that account.
C6_SignInOrder ==
    /\ []C6_Result
    /\ [][\A p \in Procs :
            /\ (IsOp(p, "signIn") /\ calls[p].pc = "afterVerify" /\ calls'[p].pc = "afterTouch")
               => /\ MapGet(users', calls[p].user).updatedAt = clock
                  /\ MapGet(users', calls[p].user).updatedAt
                        >= MapGet(users, calls[p].user).updatedAt
            /\ (IsOp(p, "signIn") /\ calls[p].pc = "afterTouch" /\ calls'[p].pc = "done")
               => LET user == MapGet(users, calls[p].user)
                  IN /\ calls'[p].result.accessToken
                            = generateToken(user.id, user.email, user.roles)
                     /\ calls'[p].result.accessToken.payload.iat
                            >= user.updatedAt \div 1000]_vars

\* a signIn has succeeded and advanced the account's updatedAt
C6_Witness ==
    \E p \in Procs :
        /\ IsOp(p, "signIn") /\ Ok(p)
        /\ MapGet(users, calls[p].user).updatedAt > MapGet(users, calls[p].user).createdAt

\* C7: when an identity has been registered (token T1) and is then authenticated
\* (token T2), T2 differs from T1, and once T2 alone has been revoked T1 is not
\* revoked.
C7_SignInTokenIsNew ==
    \A p, q \in Procs :
        (/\ IsOp(p, "signUp") /\ Ok(p)
         /\ IsOp(q, "signIn") /\ Ok(q)
         /\ p \in calls[q].prior
         /\ calls[q].result.user.id = calls[p].result.user.id)
        => LET T1 == calls[p].result.accessToken
               T2 == calls[q].result.accessToken
           IN /\ T2 # T1
              /\ loggedOut = {T2} => ~isTokenBlacklisted(T1)

(***************************************************************************)
(* Revocation.                                                             *)
(***************************************************************************)
\* C8: logout(t) of a token that was logged out before leaves t blacklisted and
\* the blacklist as it was; a token that was never passed to logout is not
\* blacklisted.
C8_LogoutIdempotentIsolated ==
    [][\A p \in Procs :
        (ArrivesNow(p) /\ calls'[p].op = "logout")
        => LET t == calls'[p].dto.token
           IN /\ t \in tokenBlacklist'
              /\ t \in loggedOut => tokenBlacklist' = tokenBlacklist
              /\ \A t2 \in LogoutTokens \cup tokenBlacklist' :
                    t2 \notin loggedOut' => t2 \notin tokenBlacklist']_vars

\* a token has been logged out twice and another token not at all
C8_Witness ==
    /\ \E p, q \in Procs :
          /\ p # q
          /\ IsOp(p, "logout") /\ IsOp(q, "logout")
          /\ calls[p].dto.token = calls[q].dto.token
          /\ isTokenBlacklisted(calls[p].dto.token)
    /\ \E t2 \in LogoutTokens : ~isTokenBlacklisted(t2)

\* C9: every token that has been passed to logout is blacklisted, whatever
\* signUp, signIn or logout steps have followed.
C9_RevocationPermanent == \A t \in loggedOut : isTokenBlacklisted(t)

\* a signIn has run to its end after a logout
C9_Witness ==
    \E p, q \in Procs :
        /\ IsOp(p, "logout")
        /\ IsOp(q, "signIn") /\ Ok(q)
        /\ p \in calls[q].prior
        /\ isTokenBlacklisted(calls[p].dto.token)

\* the token's validity window is over
Expired(token) == token.payload.exp < clock \div 1000

\* C10: logout of any token, issued by the service or not, expired or not,
\* returns {message: 'Logged out successfully'} and leaves the token blacklisted.
C10_LogoutAlwaysSucceeds ==
    \A p \in Procs :
        IsOp(p, "logout")
        => /\ Done(p)
           /\ calls[p].result = [kind |-> "ok", message |-> "Logged out successfully"]
           /\ isTokenBlacklisted(calls[p].dto.token)

\* a token the service never issued and an expired token have been logged out
C10_Witness ==
    \E p, q \in Procs :
        /\ IsOp(p, "logout") /\ calls[p].dto.token = ForeignToken
        /\ IsOp(q, "logout") /\ calls[q].dto.token = ExpiredToken
        /\ Expired(calls[q].dto.token)
        /\ calls[q].dto.token \notin IssuedTokens

\* the logout calls that were given this token
LogoutsOf(token) == {p \in Procs : IsOp(p, "logout") /\ calls[p].dto.token = token}

\* C11: however logout and isTokenBlacklisted calls interleave with each other
\* and with signUp and signIn, no update of the blacklist is lost: the
\* blacklist holds exactly the tokens that were given to logout calls, and an
\* isTokenBlacklisted(t) call answers true exactly when a logout(t) call came
\* before it, so never for a token that no logout call was given.
C11_NoLostBlacklistUpdate ==
    /\ \A p \in Procs : IsOp(p, "logout") => calls[p].dto.token \in tokenBlacklist
    /\ \A t \in tokenBlacklist : LogoutsOf(t) # {}
    /\ \A q \in Procs :
          IsOp(q, "isTokenBlacklisted")
          => (calls[q].result.value <=> LogoutsOf(calls[q].dto.token) \cap calls[q].prior # {})

\* two logout calls were given different tokens, one issued by the service
\* and one not, and both tokens are blacklisted now
C11_Witness ==
    \E p, r \in Procs :
        /\ IsOp(p, "logout") /\ IsOp(r, "logout")
        /\ calls[p].dto.token # calls[r].dto.token
        /\ isTokenBlacklisted(calls[p].dto.token)
        /\ isTokenBlacklisted(calls[r].dto.token)

\* a query that came after the logout of its token has answered true
C11_QueryWitness ==
    \E p, q \in Procs :
        /\ IsOp(p, "logout") /\ IsOp(q, "isTokenBlacklisted")
        /\ calls[q].dto.token = calls[p].dto.token
        /\ calls[q].result.value

(***************************************************************************)
(* Identity and roles.                                                     *)
(***************************************************************************)
\* C12: identity is case-insensitive: every account is stored with its email
\* lower-cased; findByEmail with any casing of an account's email returns that
\* account; a signUp that differs only in letter case from the email of an
\* earlier successful signUp is rejected as a duplicate; signIn calls that
\* differ only in letter case reach the same account.
C12_CaseInsensitiveIdentity ==
    /\ \A i \in DOMAIN users : users[i].email = toLowerCase(users[i].email)
    /\ \A i \in DOMAIN users : \A e \in EmailCasings :
          toLowerCase(e) = users[i].email => findByEmail(e) = users[i].id
    /\ \A p, q \in Procs :
          (/\ IsOp(p, "signUp") /\ Done(p)
           /\ IsOp(q, "signUp") /\ Ok(q) /\ q \in calls[p].prior
           /\ SameIdentity(p, q))
          => calls[p].result = EmailAlreadyRegistered
    /\ \A p, q \in Procs :
          (/\ IsOp(p, "signIn") /\ IsOp(q, "signIn")
           /\ calls[p].user # Undefined /\ calls[q].user # Undefined
           /\ SameIdentity(p, q))
          => calls[p].user = calls[q].user

\* the roles signUp is to give the account of this request
ExpectedRoles(dto) ==
    IF "roles" \in DOMAIN dto /\ dto.roles # <<>> THEN dto.roles ELSE <<"user">>

\* C13: a successful signUp whose roles are absent or the empty list creates an
\* account whose roles are exactly <<"user">>, and the returned user view and
\* the token's roles claim are <<"user">>; a non-empty list of roles is
\* stored, returned and put in the token as given.
C13_DefaultRole ==
    \A p \in Procs :
        (IsOp(p, "signUp") /\ Ok(p))
        => LET view == calls[p].result.user
               token == calls[p].result.accessToken
           IN /\ MapHas(users, view.id)
              /\ MapGet(users, view.id).roles = ExpectedRoles(calls[p].dto)
              /\ view.roles = ExpectedRoles(calls[p].dto)
              /\ token.payload.roles = ExpectedRoles(calls[p].dto)
              /\ token.payload.sub = view.id

\* a signUp with an empty list of roles and a signUp with two roles have succeeded
C13_Witness ==
    \E p, q \in Procs :
        /\ IsOp(p, "signUp") /\ Ok(p)
        /\ "roles" \in DOMAIN calls[p].dto /\ calls[p].dto.roles = <<>>
        /\ calls[p].result.user.roles = <<"user">>
        /\ IsOp(q, "signUp") /\ Ok(q)
        /\ "roles" \in DOMAIN calls[q].dto /\ calls[q].dto.roles = <<"manager", "admin">>

\* a signUp without a roles field has succeeded
C13_WitnessAbsent ==
    \E p \in Procs :
        /\ IsOp(p, "signUp") /\ Ok(p)
        /\ "roles" \notin DOMAIN calls[p].dto
        /\ calls[p].result.user.roles = <<"user">>

\* C14: in every reachable state every account in the directory has at least
\* one role, and every token that signUp or signIn has issued carries at least
\* one role in its roles claim.
C14_RolesNeverEmpty ==
    /\ \A i \in DOMAIN users : Len(users[i].roles) > 0
    /\ \A p \in Issued : Len(calls[p].result.accessToken.payload.roles) > 0

\* an account was signed up with an empty list of roles and has signed in
C14_Witness ==
    \E p, q \in Procs :
        /\ IsOp(p, "signUp") /\ Ok(p)
        /\ "roles" \in DOMAIN calls[p].dto /\ calls[p].dto.roles = <<>>
        /\ IsOp(q, "signIn") /\ Ok(q)
        /\ calls[q].result.user.id = calls[p].result.user.id
        /\ Len(users) > Len(mockUsers)

(***************************************************************************)
(* Tokens.                                                                 *)
(***************************************************************************)
\* the token that call p of generateToken returned
TokenOf(p) == calls[p].result.accessToken

\* the claims read back from the token of call p
ClaimsOf(p) == JSONparse(base64UrlDecode(split(TokenOf(p), ".")[2]))

\* what call p read from its environment
NowOf(p) == calls[p].trace[1].value
EnvOf(p) == calls[p].trace[2].value

\* C15: for every userId, email and list of roles, the empty list included,
\* generateToken returns a token, and the claims decoded from it have sub equal
\* to userId, email equal to email, roles equal to roles in the same order,
\* exp greater than iat, and exp - iat equal to the lifetime of the
\* environment that was active at the call.
C15_ClaimsRoundTrip ==
    \A p \in Procs :
        IsOp(p, "generateToken")
        => /\ Ok(p)
           /\ LET parsed == ClaimsOf(p)
                  claims == parsed.value
              IN /\ parsed.ok
                 /\ DOMAIN claims = {Chars("sub"), Chars("email"), Chars("roles"),
                                     Chars("iat"), Chars("exp")}
                 /\ claims[Chars("sub")] = calls[p].dto.userId
                 /\ claims[Chars("email")] = calls[p].dto.email
                 /\ claims[Chars("roles")] = calls[p].dto.roles
                 /\ claims[Chars("iat")] = NowOf(p)
                 /\ claims[Chars("exp")] > claims[Chars("iat")]
                 /\ claims[Chars("exp")] - claims[Chars("iat")]
                       = IF EnvOf(p) = "production" THEN ProdTtl ELSE DevTtl

\* tokens have been generated for an empty list of roles and for an email
\* that needs escaping, with two roles
C15_Witness ==
    \E p, q \in Procs :
        /\ IsOp(p, "generateToken") /\ calls[p].dto.roles = <<>>
        /\ IsOp(q, "generateToken") /\ calls[q].dto.email = OddEmail
        /\ Len(calls[q].dto.roles) = 2

\* exp - iat of the claims read back from a token; 0 when they cannot be read
LifetimeIn(token) ==
    LET parsed == JSONparse(base64UrlDecode(split(token, ".")[2]))
    IN IF parsed.ok /\ {Chars("exp"), Chars("iat")} \subseteq DOMAIN parsed.value
       THEN parsed.value[Chars("exp")] - parsed.value[Chars("iat")]
       ELSE 0

Base64UrlChars == ({Base64Chars[k] : k \in DOMAIN Base64Chars} \ {"+", "/"}) \cup {"-", "_"}

Range(str) == {str[i] : i \in DOMAIN str}

\* C18: a token is three segments separated by dots: the base64url text of
\* the header JSON, the base64url text of the claims JSON, and an empty
\* third segment; the first two segments contain no '+', '/' or '=', and
\* decode back to the header {alg: 'none', typ: 'JWT'} and to the claims.
C18_TokenFormat ==
    \A p \in Procs :
        IsOp(p, "generateToken")
        => LET parts == split(TokenOf(p), ".")
           IN /\ Len(parts) = 3
              /\ parts[3] = <<>>
              /\ parts[1] # <<>> /\ parts[2] # <<>>
              /\ Range(parts[1]) \cup Range(parts[2]) \subseteq Base64UrlChars
              /\ LET header == JSONparse(base64UrlDecode(parts[1]))
                     claims == JSONparse(base64UrlDecode(parts[2]))
                 IN /\ header.ok
                    /\ header.value = (Chars("alg") :> Chars("none")) @@ (Chars("typ") :> Chars("JWT"))
                    /\ claims.ok
                    /\ claims.value =
                          (Chars("sub") :> calls[p].dto.userId)
                          @@ (Chars("email") :> calls[p].dto.email)
                          @@ (Chars("roles") :> calls[p].dto.roles)
                          @@ (Chars("iat") :> NowOf(p))
                          @@ (Chars("exp") :> NowOf(p) + (IF EnvOf(p) = "production"
                                                          THEN ProdTtl ELSE DevTtl))

\* a token whose claims have '+', '/' and '=' in their plain base64 text
C18_Witness ==
    \E p \in Procs :
        /\ IsOp(p, "generateToken")
        /\ LET plain == toBase64(utf8Bytes(base64UrlDecode(split(TokenOf(p), ".")[2])))
           IN {"+", "/", "="} \subseteq Range(plain)

\* C19: the tokens of two calls of generateToken whose userId or email differ
\* are different strings, whatever the times of the calls.
C19_DistinctUsersDistinctTokens ==
    \A p, q \in Procs :
        (/\ IsOp(p, "generateToken") /\ IsOp(q, "generateToken")
         /\ \/ calls[p].dto.userId # calls[q].dto.userId
            \/ calls[p].dto.email # calls[q].dto.email)
        => TokenOf(p) # TokenOf(q)

\* two calls in the same second and environment that differ in userId only
C19_Witness ==
    \E p, q \in Procs :
        /\ IsOp(p, "generateToken") /\ IsOp(q, "generateToken")
        /\ calls[p].dto.userId # calls[q].dto.userId
        /\ calls[p].dto.email = calls[q].dto.email
        /\ calls[p].dto.roles = calls[q].dto.roles
        /\ calls[p].trace = calls[q].trace

(***************************************************************************)
(* Confidentiality.                                                        *)
(***************************************************************************)
\* C20: the password hash never leaves the service: what signUp, signIn and
\* GET /users/:userId return about a user has the fields id, email and roles
\* only, and the payload of a token has sub, email, roles, iat and exp only,
\* so neither carries the password hash or the plain password.
C20_PasswordHashNeverLeaves ==
    \A p \in Procs :
        /\ p \in Issued
           => /\ DOMAIN calls[p].result = {"kind", "accessToken", "user"}
              /\ DOMAIN calls[p].result.user = {"id", "email", "roles"}
              /\ DOMAIN calls[p].result.accessToken = {"header", "payload", "signature"}
              /\ DOMAIN calls[p].result.accessToken.header = {"alg", "typ"}
              /\ DOMAIN calls[p].result.accessToken.payload
                    = {"sub", "email", "roles", "iat", "exp"}
              /\ calls[p].dto.password
                    \notin {calls[p].result.user.email,
                            calls[p].result.accessToken.payload.email}
        /\ (IsOp(p, "getUserById") /\ Ok(p))
           => /\ DOMAIN calls[p].result = {"kind", "body"}
              /\ DOMAIN calls[p].result.body = {"id", "email", "roles"}
              /\ calls[p].result.body.id = calls[p].dto.userId

\* a signUp has succeeded and GET /users/:userId has returned a user
C20_Witness ==
    \E p, q \in Procs :
        /\ IsOp(p, "signUp") /\ Ok(p)
        /\ IsOp(q, "getUserById") /\ Ok(q)
        /\ MapGet(users, calls[q].result.body.id).passwordHash = defaultPasswordHash
        /\ MapGet(users, calls[p].result.user.id).passwordHash
              = hashPassword(calls[p].dto.password, "salt-1")

(***************************************************************************)
(* The directory.                                                          *)
(***************************************************************************)
\* the ids an account can have or be asked for
AllIds ==
    {mockUsers[i].id : i \in DOMAIN mockUsers}
    \cup {"uuid-" \o ToString(n) : n \in 1..MaxStarted}
    \cup {"no-such-id"}

\* the ids of the seeded accounts and of the accounts that signUp has created
KnownIds ==
    {mockUsers[i].id : i \in DOMAIN mockUsers}
    \cup {calls[q].user : q \in {r \in Procs : IsOp(r, "signUp") /\ Called(r, "create")}}

\* C21: touch(id) for an id that is not in the directory completes without
\* error and leaves the directory, every field of every account, unchanged.
C21_TouchAbsentIsNoop ==
    [][\A p \in Procs :
        (/\ ArrivesNow(p) /\ calls'[p].op = "touch"
         /\ ~MapHas(users, calls'[p].dto.userId))
        => /\ users' = users
           /\ calls'[p].pc = "done"
           /\ calls'[p].result = [kind |-> "ok"]]_vars

\* touch has been called for an id of no account while an account that
\* signed up is in the directory
C21_Witness ==
    /\ \E p \in Procs :
          /\ IsOp(p, "touch") /\ Done(p)
          /\ ~MapHas(users, calls[p].dto.userId)
    /\ Len(users) > Len(mockUsers)

\* C22: an account keeps its id, email, passwordHash, roles and createdAt in
\* every step of signUp, signIn, logout and touch; updatedAt is the only
\* field that changes, and it changes only for the account that a touch(id)
\* call or the touch of a signIn names, which gets the time of that step.
C22_OnlyUpdatedAtChanges ==
    [][\A i \in DOMAIN users :
        /\ i \in DOMAIN users'
        /\ users'[i].id = users[i].id
        /\ users'[i].email = users[i].email
        /\ users'[i].passwordHash = users[i].passwordHash
        /\ users'[i].roles = users[i].roles
        /\ users'[i].createdAt = users[i].createdAt
        /\ DOMAIN users'[i] = DOMAIN users[i]
        /\ LET touched ==
                 \E p \in Procs :
                    \/ /\ ArrivesNow(p) /\ calls'[p].op = "touch"
                       /\ calls'[p].dto.userId = users[i].id
                    \/ /\ calls[p].op = "signIn"
                       /\ calls[p].pc = "afterVerify" /\ calls'[p].pc = "afterTouch"
                       /\ calls[p].user = users[i].id
           IN users'[i].updatedAt = IF touched THEN clock ELSE users[i].updatedAt]_vars

\* touch has refreshed the updatedAt of one account after the clock advanced
C22_Witness ==
    \E p \in Procs :
        /\ IsOp(p, "touch") /\ MapHas(users, calls[p].dto.userId)
        /\ MapGet(users, calls[p].dto.userId).updatedAt
              > MapGet(users, calls[p].dto.userId).createdAt
        /\ \E i \in DOMAIN users :
              /\ users[i].id # calls[p].dto.userId
              /\ users[i].updatedAt = users[i].createdAt

\* C23: accounts are never deleted: once findById(id) or findByEmail(e) has
\* returned an account it returns the account of the same id in every later
\* state, and the set of account ids only grows.
C23_AccountsNeverDeleted ==
    [][users' # users =>
        /\ \A id \in AllIds : findById(id) # Undefined => findById(id)' = findById(id)
        /\ \A e \in {NewEmailUpper, AdminEmail} :
              findByEmail(e) # Undefined => findByEmail(e)' = findByEmail(e)
        /\ {users[i].id : i \in DOMAIN users} \subseteq {users'[i].id : i \in DOMAIN users'}]_vars

\* an account that signed up is found by id and by email after a later
\* request has completed
C23_Witness ==
    \E p, q \in Procs :
        /\ IsOp(p, "signUp") /\ Ok(p)
        /\ Done(q) /\ p \in calls[q].prior
        /\ findById(calls[p].result.user.id) = calls[p].result.user.id
        /\ findByEmail(calls[p].dto.email) = calls[p].result.user.id

\* findAll and findById agree with the accounts seeded or created so far
C28_Directory ==
    /\ {findAll(users)[i].id : i \in DOMAIN findAll(users)} = KnownIds
    /\ Cardinality(KnownIds) = Len(findAll(users))
    /\ \A id \in AllIds : findById(id) # Undefined <=> id \in KnownIds
    /\ \A q \in Procs :
          (IsOp(q, "signUp") /\ Called(q, "create"))
          => /\ findById(calls[q].user) = calls[q].user
             /\ MapGet(users, calls[q].user).email = toLowerCase(calls[q].dto.email)
             /\ MapGet(users, calls[q].user).passwordHash = calls[q].passwordHash

\* C28: findAll returns a snapshot of exactly the accounts seeded or created
\* so far; findById(id) returns an account if and only if id is the id of
\* one of them; findById of the id that create returned is the created account.
C28_FindAllFindById ==
    /\ []C28_Directory
    /\ [][\A p \in Procs :
            (ArrivesNow(p) /\ calls'[p].op = "findAll")
            => /\ calls'[p].result.kind = "ok"
               /\ {calls'[p].result.body[i].id : i \in DOMAIN calls'[p].result.body}
                     = KnownIds
               /\ \A i \in DOMAIN calls'[p].result.body :
                     calls'[p].result.body[i] = MapGet(users, calls'[p].result.body[i].id)]_vars

\* findAll has returned five accounts, the one that signed up among them
C28_Witness ==
    \E p, q \in Procs :
        /\ IsOp(p, "signUp") /\ Ok(p)
        /\ IsOp(q, "findAll") /\ Len(calls[q].result.body) = Len(mockUsers) + 1
        /\ \E i \in DOMAIN calls[q].result.body :
              calls[q].result.body[i].id = calls[p].result.user.id

\* C26: the only errors of the authentication service are the two business
\* errors: a signUp that fails fails with ConflictException, a signIn that
\* fails fails with UnauthorizedException, and logout and isTokenBlacklisted
\* never fail.
C26_OnlyBusinessErrors ==
    \A p \in Procs :
        /\ ~Done(p) => calls[p].result = NoResult
        /\ (Done(p) /\ IsOp(p, "signUp"))
           => \/ calls[p].result.kind = "ok"
              \/ calls[p].result = ConflictException("Email already registered")
        /\ (Done(p) /\ IsOp(p, "signIn"))
           => \/ calls[p].result.kind = "ok"
              \/ calls[p].result = UnauthorizedException("Invalid credentials")
        /\ (Done(p) /\ IsOp(p, "logout")) => calls[p].result.kind = "ok"
        /\ (Done(p) /\ IsOp(p, "isTokenBlacklisted")) => calls[p].result.kind = "ok"

\* a signUp has failed on the email of an account that signed up before it
C26_Witness ==
    \E p, q \in Procs :
        /\ IsOp(q, "signUp") /\ Ok(q)
        /\ IsOp(p, "signUp") /\ Done(p) /\ calls[p].result.kind = "error"

\* a signIn has failed on its credentials
C26_WitnessSignIn ==
    \E q \in Procs : IsOp(q, "signIn") /\ Done(q) /\ calls[q].result.kind = "error"

\* a logout and a query of the blacklist have completed
C26_WitnessLogout ==
    \E p, q \in Procs :
        /\ IsOp(p, "logout") /\ Done(p)
        /\ IsOp(q, "isTokenBlacklisted") /\ Done(q)

\* the secret an account was registered with: 'password123' for a seeded
\* account, the password of the signUp that created it for any other
RegisteredSecret(id) ==
    IF \E i \in DOMAIN mockUsers : mockUsers[i].id = id
    THEN Password123
    ELSE LET q == CHOOSE r \in Procs :
                    IsOp(r, "signUp") /\ Called(r, "create") /\ calls[r].user = id
         IN calls[q].dto.password

\* C27: a signIn that found an account registered with secret s succeeds if
\* and only if its secret is exactly s; the empty string, a secret that
\* differs in letter case and every other different secret are rejected.
C27_SignInIffSameSecret ==
    \A p \in Procs :
        (IsOp(p, "signIn") /\ Done(p) /\ calls[p].user # Undefined)
        => (Ok(p) <=> calls[p].dto.password = RegisteredSecret(calls[p].user))

\* the id of the account a signIn with these credentials authenticates in
\* this state: the account findByEmail returns, if verifyPassword accepts
\* the password against its stored hash
Authenticates(dto) ==
    LET id == findByEmail(dto.email)
    IN IF id # Undefined /\ verifyPassword(dto.password, MapGet(users, id).passwordHash)
       THEN id
       ELSE Undefined

\* C30: every caller whose signUp succeeded can authenticate in every later
\* state, under any interleaving with other calls: signIn with the same
\* email and password succeeds and returns the id that signUp returned.
C30_SignUpThenSignIn ==
    \A p \in Procs :
        (IsOp(p, "signUp") /\ Ok(p))
        => Authenticates(calls[p].dto) = calls[p].result.user.id

\* the place of the seeded account with this email in mockUsers
SeedIndex(email) ==
    CHOOSE i \in DOMAIN mockUsers : mockUsers[i].email = toLowerCase(email)

\* C29: the directory holds the four seeded accounts with their fixed ids,
\* emails and roles, once each, also after the seeding has run again; each of
\* them signs in with 'password123'; a signUp with one of their emails is
\* rejected as a duplicate.
C29_SeededAccounts ==
    /\ \A i \in DOMAIN mockUsers :
          /\ users[i].id = mockUsers[i].id
          /\ users[i].email = mockUsers[i].email
          /\ users[i].roles = mockUsers[i].roles
          /\ Authenticates([email |-> mockUsers[i].email, password |-> Password123])
                = mockUsers[i].id
    /\ \A i \in DOMAIN users :
          i > Len(mockUsers) => \A j \in DOMAIN mockUsers : users[i].id # mockUsers[j].id
    /\ \A p \in Procs :
          (Done(p) /\ toLowerCase(calls[p].dto.email) \in SeedEmails)
          => /\ IsOp(p, "signUp") => calls[p].result = EmailAlreadyRegistered
             /\ (IsOp(p, "signIn") /\ calls[p].dto.password = Password123)
                => /\ calls[p].result.kind = "ok"
                   /\ calls[p].result.user.id = mockUsers[SeedIndex(calls[p].dto.email)].id
                   /\ calls[p].result.user.roles
                        = mockUsers[SeedIndex(calls[p].dto.email)].roles

\* the seeding has run again after an account signed up, and a seeded account
\* has signed in
C29_Witness ==
    /\ users[1].createdAt > StartMs
    /\ Len(users) > Len(mockUsers)
    /\ \E p \in Procs : IsOp(p, "signIn") /\ Ok(p)

\* a signUp with the email of a seeded account has been rejected
C29_WitnessSignUp ==
    \E p \in Procs :
        /\ IsOp(p, "signUp") /\ Done(p)
        /\ toLowerCase(calls[p].dto.email) \in SeedEmails

(***************************************************************************)
(* The logout endpoint.                                                    *)
(***************************************************************************)
\* the header object has an Authorization header that begins with 'Bearer '
HasBearer(headers) ==
    /\ "authorization" \in DOMAIN headers
    /\ Len(headers.authorization) >= Len(BearerPrefix)
    /\ \A i \in DOMAIN BearerPrefix : headers.authorization[i] = BearerPrefix[i]

\* C24: the logout endpoint rejects a missing, an empty and a not
\* 'Bearer '-prefixed Authorization header with
\* UnauthorizedException('Missing or invalid Authorization header') without
\* calling AuthService.logout: the blacklist is unchanged; a header that
\* begins with 'Bearer ' is not rejected.
C24_BadHeaderRejected ==
    [][\A p \in Procs :
        (ArrivesNow(p) /\ calls'[p].op = "AuthController.logout")
        => IF HasBearer(calls'[p].dto)
           THEN calls'[p].result.kind = "ok"
           ELSE /\ calls'[p].pc = "done"
                /\ calls'[p].result
                     = UnauthorizedException("Missing or invalid Authorization header")
                /\ calls'[p].trace = <<>>
                /\ tokenBlacklist' = tokenBlacklist
                /\ loggedOut' = loggedOut]_vars

\* the endpoint has rejected a request after it has logged a token out
C24_Witness ==
    \E p, q \in Procs :
        /\ IsOp(q, "AuthController.logout") /\ Ok(q)
        /\ IsOp(p, "AuthController.logout") /\ Done(p) /\ q \in calls[p].prior
        /\ calls[p].result.kind = "error"
        /\ tokenBlacklist # {}

\* the endpoint has rejected a request without an Authorization header
C24_WitnessMissing ==
    \E p \in Procs :
        /\ IsOp(p, "AuthController.logout") /\ Done(p)
        /\ "authorization" \notin DOMAIN calls[p].dto

\* the endpoint calls answered with the header 'Bearer ' + text
BearerCalls(text) ==
    {p \in Procs : /\ IsOp(p, "AuthController.logout") /\ Done(p)
                   /\ "authorization" \in DOMAIN calls[p].dto
                   /\ calls[p].dto.authorization = BearerPrefix \o text}

\* C25: for a token T that signUp or signIn returned, the logout endpoint
\* called with the header 'Bearer ' + T passes exactly T to AuthService.logout,
\* and isTokenBlacklisted(T) is true from then on.
C25_BearerTokenBlacklisted ==
    /\ [](\A token \in IssuedTokens :
            BearerCalls(accessTokenText(token)) # {}
            => isTokenBlacklisted(accessTokenText(token)))
    /\ [][\A p \in Procs : \A token \in IssuedTokens :
            (/\ ArrivesNow(p) /\ calls'[p].op = "AuthController.logout"
             /\ "authorization" \in DOMAIN calls'[p].dto
             /\ calls'[p].dto.authorization = BearerPrefix \o accessTokenText(token))
            => /\ calls'[p].result = LoggedOut
               /\ calls'[p].trace = <<"logout">>
               /\ loggedOut' = loggedOut \cup {accessTokenText(token)}
               /\ tokenBlacklist' = tokenBlacklist \cup {accessTokenText(token)}]_vars

\* the token of a sign-in has been logged out through the endpoint
C25_Witness ==
    \E q \in Procs :
        /\ IsOp(q, "signIn") /\ Ok(q)
        /\ BearerCalls(accessTokenText(calls[q].result.accessToken)) # {}

\* the token of a sign-up has been logged out through the endpoint
C25_WitnessSignUp ==
    \E q \in Procs :
        /\ IsOp(q, "signUp") /\ Ok(q)
        /\ BearerCalls(accessTokenText(calls[q].result.accessToken)) # {}

(***************************************************************************)
(* The user endpoints and the authentication endpoints.                    *)
(***************************************************************************)
\* C32: the user endpoints observe the directory of the authentication
\* endpoints: once signUp has returned an account with id X,
\* userExists(X) is true and getUserById(X) returns that account.
C32_SameDirectory ==
    \A p, q \in Procs :
        (/\ IsOp(p, "signUp") /\ Ok(p)
         /\ Done(q) /\ p \in calls[q].prior
         /\ calls[q].op \in {"getUserById", "validateUser"}
         /\ calls[q].dto.userId = calls[p].result.user.id)
        => /\ userExists(calls[p].result.user.id)
           /\ calls[q].result.kind = "ok"
           /\ IsOp(q, "validateUser") => calls[q].result.body.exists
           /\ IsOp(q, "getUserById") => calls[q].result.body = calls[p].result.user

\* C33: the blacklist never contains the empty string: for every
\* Authorization header the logout endpoint accepts, 'Bearer ' followed by
\* white space only included, AuthService.logout is called with a non-empty
\* token.
C33_NoEmptyToken ==
    /\ <<>> \notin tokenBlacklist
    /\ <<>> \notin loggedOut

(***************************************************************************)
(* Tokens and accounts.                                                    *)
(***************************************************************************)
\* the token a signUp or signIn that returns in this state hands to the
\* account: both end with generateToken(user.id, user.email, user.roles)
TokenNow(user) == generateToken(user.id, user.email, user.roles)

C34_TokenDescribesAccount ==
    \A p \in Issued :
        LET claims == calls[p].result.accessToken.payload
        IN \E i \in DOMAIN users :
              /\ users[i].id = claims.sub
              /\ users[i].email = claims.email
              /\ users[i].roles = claims.roles

\* an account signed up with two roles, and a later sign-in has completed
C34_Witness ==
    \E p, q \in Procs :
        /\ IsOp(p, "signUp") /\ Ok(p)
        /\ Len(calls[p].result.accessToken.payload.roles) > 1
        /\ IsOp(q, "signIn") /\ Ok(q) /\ p \in calls[q].prior

(***************************************************************************)
(* Registrations of different identities.                                  *)
(***************************************************************************)
\* no other signUp call has the identity of request p
AloneInIdentity(p) ==
    \A q \in Procs \ {p} : IsOp(q, "signUp") => ~SameIdentity(p, q)

\* C35: registrations of different identities do not interfere: concurrent
\* signUp calls whose lower-cased emails are pairwise distinct and not yet
\* registered all succeed, in every interleaving, and each creates one
\* account with an id of its own.
C35_DistinctIdentitiesSucceed ==
    \A p \in Procs :
        (/\ IsOp(p, "signUp") /\ Done(p)
         /\ toLowerCase(calls[p].dto.email) \notin {mockUsers[i].email : i \in DOMAIN mockUsers}
         /\ AloneInIdentity(p))
        => /\ calls[p].result.kind = "ok"
           /\ Cardinality({i \in DOMAIN users : users[i].id = calls[p].result.user.id}) = 1
           /\ Cardinality({i \in DOMAIN users :
                              users[i].email = toLowerCase(calls[p].dto.email)}) = 1
           /\ MapGet(users, calls[p].result.user.id).email = toLowerCase(calls[p].dto.email)
           /\ \A q \in Procs \ {p} :
                 (IsOp(q, "signUp") /\ Ok(q))
                 => calls[q].result.user.id # calls[p].result.user.id

\* two signUp calls of different identities have overlapped and completed
C35_Witness ==
    \E p, q \in Procs :
        /\ IsOp(p, "signUp") /\ Ok(p) /\ IsOp(q, "signUp") /\ Ok(q)
        /\ ~SameIdentity(p, q)
        /\ p \notin calls[q].prior /\ q \notin calls[p].prior
        /\ p # q

(***************************************************************************)
(* Frames.                                                                 *)
(***************************************************************************)
\* C36: the directory and the blacklist are changed only by their own
\* operations: every step of a signUp or signIn, successful or failed, leaves
\* the blacklist unchanged, and logout and isTokenBlacklisted leave the
\* directory unchanged: no account is created and none is touched.
C36_OwnOperationsOnly ==
    [][\A p \in Procs :
        Steps(p)
        => /\ calls'[p].op \in {"signUp", "signIn"}
              => tokenBlacklist' = tokenBlacklist /\ loggedOut' = loggedOut
           /\ calls'[p].op \in {"logout", "isTokenBlacklisted"}
              => users' = users /\ uuidCount' = uuidCount]_vars

\* a signIn has failed, and a token was logged out after the clock advanced
C36_Witness ==
    \E p, q \in Procs :
        /\ IsOp(p, "signIn") /\ Done(p) /\ calls[p].result.kind = "error"
        /\ IsOp(q, "logout") /\ Done(q)
        /\ clock > StartMs

\* a signUp has succeeded while the blacklist held a token
C36_WitnessSignUp ==
    \E p, q \in Procs :
        /\ IsOp(q, "logout") /\ Done(q)
        /\ IsOp(p, "signUp") /\ Ok(p) /\ q \in calls[p].prior

(***************************************************************************)
(* Timestamps.                                                             *)
(***************************************************************************)
\* C37: in every reachable state every account has createdAt <= updatedAt,
\* and the updatedAt of an account never decreases, whatever operations run
\* (the clock never goes back).
C37_TimestampsOrdered ==
    /\ [](\A i \in DOMAIN users : users[i].createdAt <= users[i].updatedAt)
    /\ [][\A i \in DOMAIN users :
            /\ users'[i].updatedAt >= users[i].updatedAt
            /\ users'[i].updatedAt <= clock']_vars

\* a sign-in has moved the updatedAt of its account past its createdAt
C37_Witness ==
    \E p \in Procs :
        /\ IsOp(p, "signIn") /\ Ok(p)
        /\ MapGet(users, calls[p].result.user.id).updatedAt
              > MapGet(users, calls[p].result.user.id).createdAt

(***************************************************************************)
(* Termination.                                                            *)
(***************************************************************************)
\* C38: every started signUp, signIn and logout call eventually completes,
\* with its result or with its business error, when the pending steps of all
\* concurrent calls are scheduled fairly; no call is blocked for ever by
\* another call.
C38_EveryCallCompletes ==
    \A p \in Procs :
        (calls[p].pc # "idle")
        ~> (/\ Done(p)
            /\ calls[p].result.kind \in {"ok", "error"})

\* a signUp and a signIn have overlapped and both have completed, one of
\* them with its error
C38_Witness ==
    \E p, q \in Procs :
        /\ IsOp(p, "signUp") /\ Done(p)
        /\ IsOp(q, "signIn") /\ Done(q)
        /\ p \notin calls[q].prior /\ q \notin calls[p].prior
        /\ "error" \in {calls[p].result.kind, calls[q].result.kind}

====
